---- MODULE Spec2Model ----
(***************************************************************************)
(* A model of llm_tester.py: the conversation driver that rewrites a       *)
(* question file into a transcript, and the interactive option prompts.    *)
(* Text is modelled as sequences of one-character strings, files as the    *)
(* decoded text Python's text mode hands to the program.                   *)
(***************************************************************************)
EXTENDS Integers, Sequences, FiniteSets, TLC

VARIABLES
    fs,              \* the filesystem: path -> text of the file
    pc,              \* where the process is
    runs,            \* how many times main has been started
    inputFile,       \* main's inputFile path
    outputFile,      \* main's outputFile path
    system_message,  \* main's system_message (an optional string)
    inOpen,          \* the input handle is open
    outOpen,         \* the output handle is open
    inPos,           \* characters the input handle has consumed
    messages,        \* the message history list
    requests,        \* what the client received: one entry per create() call
    completions,     \* what the client returned: one message per successful call
    error,           \* the exception that left the driver, "none" if none
    inputBefore,     \* the text of the input file when main was started
    prev,            \* the previous run: its output path, completions, outcome
    requestOptions,  \* the global requestOptions dict
    ask,             \* the prompt in progress
    typed,           \* the last line typed at a prompt
    result           \* what the last finished prompt helper returned

vars == <<fs, pc, runs, inputFile, outputFile, system_message, inOpen, outOpen,
          inPos, messages, requests, completions, error, inputBefore, prev,
          requestOptions, ask, typed, result>>

driverVars == <<fs, pc, runs, inputFile, outputFile, system_message, inOpen,
                outOpen, inPos, messages, requests, completions, error,
                inputBefore, prev>>

promptVars == <<requestOptions, ask, typed, result>>

-----------------------------------------------------------------------------
(* Bounds of the model *)

MaxLines == 3

MaxRuns == 2

-----------------------------------------------------------------------------
(* Text *)

NL == "\n"

IsSpace(c) == c \in {" ", NL}

RECURSIVE lstrip(_)
lstrip(s) ==
    IF s = <<>> THEN s
    ELSE IF IsSpace(Head(s)) THEN lstrip(Tail(s)) ELSE s

RECURSIVE rstrip(_)
rstrip(s) ==
    IF s = <<>> THEN s
    ELSE IF IsSpace(s[Len(s)]) THEN rstrip(SubSeq(s, 1, Len(s) - 1)) ELSE s

strip(s) == rstrip(lstrip(s))

startswith(s, prefix) ==
    Len(s) >= Len(prefix) /\ SubSeq(s, 1, Len(prefix)) = prefix

QPrefix == <<"-", " ", "Q", ":", " ">>

\* a changed APrefix: the blank after the colon is required
APrefixWithBlank == <<"-", " ", "A", ":", " ">>

APrefix == <<"-", " ", "A", ":">>

AnswerHead == <<"-", " ", "A", ":", " ">>

\* line[5:]
QuestionText(line) == SubSeq(line, 6, Len(line))

\* the end of the line that starts after `pos` characters of `text`
LineEnd(text, pos) ==
    IF \E i \in (pos + 1)..Len(text) : text[i] = NL
    THEN CHOOSE i \in (pos + 1)..Len(text) :
            /\ text[i] = NL
            /\ \A j \in (pos + 1)..(i - 1) : text[j] # NL
    ELSE Len(text)

\* one step of `for line in inputFile`: the next line, terminator kept
ReadLine(text, pos) == SubSeq(text, pos + 1, LineEnd(text, pos))

-----------------------------------------------------------------------------
(* Optional values *)

None == [some |-> FALSE, v |-> <<>>]

Some(x) == [some |-> TRUE, v |-> x]

-----------------------------------------------------------------------------
(* What the operator and the client can supply *)

DefaultInput == <<"L", "L", "M", " ", "T", "e", "s", "t", ".", "m", "d">>

DefaultOutput ==
    <<"L", "L", "M", " ", "T", "e", "s", "t", "R", "e", "s", "u", "l", "t", ".", "m", "d">>

LocalModel == <<"l", "o", "c", "a", "l", "-", "m", "o", "d", "e", "l">>

Paths == {DefaultInput, DefaultOutput}

\* lines an operator may type at a file-name prompt
PathInputs == {<<>>} \cup { <<" ">> \o p : p \in Paths }

SystemInputs == {<<" ">>, <<" ", "S">>}

LineTexts ==
    { <<"-", " ", "Q", ":", " ", "a">>,
      <<"-", " ", "Q", ":", " ", "b">>,
      <<"-", " ", "A", ":", " ", "s">>,
      <<"-", " ", "A", ":", "s">>,
      <<"#", " ", "T">>,
      <<>> }

RECURSIVE Join(_)
Join(ls) == IF ls = <<>> THEN <<>> ELSE Head(ls) \o <<NL>> \o Join(Tail(ls))

\* test files: up to MaxLines lines, the last one with or without its newline
TestFiles ==
    LET seqs == UNION { [1..n -> LineTexts] : n \in 0..MaxLines }
    IN  { Join(ls) : ls \in seqs }
        \cup { SubSeq(Join(ls), 1, Len(Join(ls)) - 1) : ls \in seqs \ {<<>>} }

\* contents the client may put in a reply
AnswerContents ==
    { <<" ", "4", NL>>,
      <<"4", NL, "5">> }

-----------------------------------------------------------------------------
(* Helpers of the program *)

\* inputStringOrNull, given the line typed
inputStringOrNull(line) ==
    IF strip(line) = <<>> THEN None ELSE Some(strip(line))

\* inputStringOrDefault, given the line typed
inputStringOrDefault(line, default) ==
    IF inputStringOrNull(line).some THEN inputStringOrNull(line).v ELSE default

getMessageHistoryEntry(content, role) ==
    [type |-> "dict", role |-> role, content |-> content]

\* completion.choices[0].message for a reply with the given content
ChatCompletionMessage(content) ==
    [type |-> "ChatCompletionMessage", role |-> "assistant", content |-> content]

\* a changed Unwind: the output handle is not closed on an exception
UnwindLeak(err) ==
    /\ pc' = "raised"
    /\ error' = err
    /\ inOpen' = FALSE
    /\ outOpen' = outOpen

\* leaving both `with` blocks on an exception: both handles are closed
Unwind(err) ==
    /\ pc' = "raised"
    /\ error' = err
    /\ inOpen' = FALSE
    /\ outOpen' = FALSE

\* outputFile.write(text)
Write(files, path, text) == [files EXCEPT ![path] = @ \o text]

\* the text written for an answer
AnswerLine(answer) == AnswerHead \o strip(answer.content) \o <<NL>>

\* the messages argument of the create() call
Sent(msgs) == [options |-> requestOptions, messages |-> msgs]

\* a changed Asked: every question starts a history of its own
AskedAlone(msgs, line) ==
    <<getMessageHistoryEntry(strip(QuestionText(line)), "user")>>

\* lines 116-118: the question's stripped text joins the history as a user entry
Asked(msgs, line) ==
    Append(msgs, getMessageHistoryEntry(strip(QuestionText(line)), "user"))

\* a changed Answered: the returned message is not kept
AnsweredForgotten(msgs, answer) == msgs

\* line 120: the returned message joins the history
Answered(msgs, answer) == Append(msgs, answer)

-----------------------------------------------------------------------------
(* The driver *)

NoRun == [outputFile |-> <<>>, completions |-> <<>>, returned |-> FALSE]

DriverInit ==
    /\ fs \in { [p \in Paths |-> IF p = DefaultInput THEN t ELSE <<>>] : t \in TestFiles }
    /\ pc = "idle"
    /\ runs = 0
    /\ inputFile = DefaultInput
    /\ outputFile = DefaultOutput
    /\ system_message = None
    /\ inOpen = FALSE
    /\ outOpen = FALSE
    /\ inPos = 0
    /\ messages = <<>>
    /\ requests = <<>>
    /\ completions = <<>>
    /\ error = "none"
    /\ inputBefore = <<>>
    /\ prev = NoRun

\* main, lines 131-141, up to the call of the driver
Start ==
    /\ runs' = runs + 1
    /\ \E o \in PathInputs, i \in PathInputs, s \in SystemInputs :
        /\ outputFile' = inputStringOrDefault(o, DefaultOutput)
        /\ inputFile' = inputStringOrDefault(i, DefaultInput)
        /\ system_message' = inputStringOrNull(s)
    /\ inputBefore' = fs[inputFile']
    /\ prev' = IF pc = "returned"
               THEN [outputFile |-> outputFile, completions |-> completions,
                     returned |-> TRUE]
               ELSE NoRun
    /\ pc' = "call"
    /\ error' = "none"
    /\ inPos' = 0
    /\ messages' = <<>>
    /\ requests' = <<>>
    /\ completions' = <<>>
    /\ UNCHANGED <<fs, inOpen, outOpen>>
    /\ UNCHANGED promptVars

\* the program is started
Main == pc = "idle" /\ Start

\* the program has ended and the operator starts it again
Rerun ==
    /\ pc \in {"returned", "raised"}
    /\ runs < MaxRuns
    /\ Start

\* lines 108-111: the history is seeded and the input is opened
OpenInput ==
    /\ pc = "call"
    /\ messages' = IF system_message.some
                   THEN <<getMessageHistoryEntry(system_message.v, "system")>>
                   ELSE <<>>
    /\ inOpen' = TRUE
    /\ inPos' = 0
    /\ pc' = "opened"
    /\ UNCHANGED <<fs, runs, inputFile, outputFile, system_message, outOpen,
                   requests, completions, error, inputBefore, prev>>
    /\ UNCHANGED promptVars

\* line 111 raising: the input cannot be opened
OpenInputFails ==
    /\ pc = "call"
    /\ messages' = IF system_message.some
                   THEN <<getMessageHistoryEntry(system_message.v, "system")>>
                   ELSE <<>>
    /\ Unwind("open_input")
    /\ UNCHANGED <<fs, runs, inputFile, outputFile, system_message, inPos,
                   requests, completions, inputBefore, prev>>
    /\ UNCHANGED promptVars

\* line 112: the output is opened for writing, which truncates it
OpenOutput ==
    /\ pc = "opened"
    /\ fs' = [fs EXCEPT ![outputFile] = <<>>]
    /\ outOpen' = TRUE
    /\ pc' = "loop"
    /\ UNCHANGED <<runs, inputFile, outputFile, system_message, inOpen, inPos,
                   messages, requests, completions, error, inputBefore, prev>>
    /\ UNCHANGED promptVars

\* line 112 raising: the output cannot be opened
OpenOutputFails ==
    /\ pc = "opened"
    /\ Unwind("open_output")
    /\ UNCHANGED <<fs, runs, inputFile, outputFile, system_message, inPos,
                   messages, requests, completions, inputBefore, prev>>
    /\ UNCHANGED promptVars

AtLine == pc = "loop" /\ inPos < Len(fs[inputFile])

Line == ReadLine(fs[inputFile], inPos)

\* lines 114-121: a question is written, asked and answered
Question ==
    /\ AtLine
    /\ startswith(Line, QPrefix)
    /\ \E content \in AnswerContents :
        LET asked == Asked(messages, Line)
            answer == ChatCompletionMessage(content)
        IN  /\ requests' = Append(requests, Sent(asked))
            /\ completions' = Append(completions, answer)
            /\ messages' = Answered(asked, answer)
            /\ fs' = Write(Write(fs, outputFile, Line), outputFile, AnswerLine(answer))
    /\ inPos' = inPos + Len(Line)
    /\ UNCHANGED <<pc, runs, inputFile, outputFile, system_message, inOpen,
                   outOpen, error, inputBefore, prev>>
    /\ UNCHANGED promptVars

\* a changed QuestionFails: the question line is written after the request
QuestionFailsUnwritten ==
    /\ AtLine
    /\ startswith(Line, QPrefix)
    /\ LET asked == Asked(messages, Line)
       IN  /\ requests' = Append(requests, Sent(asked))
           /\ messages' = asked
    /\ inPos' = inPos + Len(Line)
    /\ Unwind("request")
    /\ UNCHANGED <<fs, runs, inputFile, outputFile, system_message, completions,
                   inputBefore, prev>>
    /\ UNCHANGED promptVars

\* lines 114-119 with the request raising
QuestionFails ==
    /\ AtLine
    /\ startswith(Line, QPrefix)
    /\ LET asked == Asked(messages, Line)
       IN  /\ requests' = Append(requests, Sent(asked))
           /\ messages' = asked
    /\ fs' = Write(fs, outputFile, Line)
    /\ inPos' = inPos + Len(Line)
    /\ Unwind("request")
    /\ UNCHANGED <<runs, inputFile, outputFile, system_message, completions,
                   inputBefore, prev>>
    /\ UNCHANGED promptVars

\* lines 122-123: an answer line of the input is skipped
Answer ==
    /\ AtLine
    /\ ~startswith(Line, QPrefix)
    /\ startswith(Line, APrefix)
    /\ inPos' = inPos + Len(Line)
    /\ UNCHANGED <<fs, pc, runs, inputFile, outputFile, system_message, inOpen,
                   outOpen, messages, requests, completions, error,
                   inputBefore, prev>>
    /\ UNCHANGED promptVars

\* lines 124-125: any other line is copied
Other ==
    /\ AtLine
    /\ ~startswith(Line, QPrefix)
    /\ ~startswith(Line, APrefix)
    /\ fs' = Write(fs, outputFile, Line)
    /\ inPos' = inPos + Len(Line)
    /\ UNCHANGED <<pc, runs, inputFile, outputFile, system_message, inOpen,
                   outOpen, messages, requests, completions, error,
                   inputBefore, prev>>
    /\ UNCHANGED promptVars

\* line 115 or 125 raising: the line is read and its write fails
WriteFails ==
    /\ AtLine
    /\ startswith(Line, QPrefix) \/ ~startswith(Line, APrefix)
    /\ inPos' = inPos + Len(Line)
    /\ Unwind("write")
    /\ UNCHANGED <<fs, runs, inputFile, outputFile, system_message, messages,
                   requests, completions, inputBefore, prev>>
    /\ UNCHANGED promptVars

\* line 121 raising: the answer arrived and its write fails
AnswerWriteFails ==
    /\ AtLine
    /\ startswith(Line, QPrefix)
    /\ \E content \in AnswerContents :
        LET asked == Asked(messages, Line)
            answer == ChatCompletionMessage(content)
        IN  /\ requests' = Append(requests, Sent(asked))
            /\ completions' = Append(completions, answer)
            /\ messages' = Answered(asked, answer)
    /\ fs' = Write(fs, outputFile, Line)
    /\ inPos' = inPos + Len(Line)
    /\ Unwind("write")
    /\ UNCHANGED <<runs, inputFile, outputFile, system_message, inputBefore, prev>>
    /\ UNCHANGED promptVars

\* the loop ends at the end of the input and both `with` blocks are left
Return ==
    /\ pc = "loop"
    /\ inPos >= Len(fs[inputFile])
    /\ pc' = "returned"
    /\ inOpen' = FALSE
    /\ outOpen' = FALSE
    /\ UNCHANGED <<fs, runs, inputFile, outputFile, system_message, inPos,
                   messages, requests, completions, error, inputBefore, prev>>
    /\ UNCHANGED promptVars

-----------------------------------------------------------------------------
(* Numbers as Python's float() and int() read them.  A finite float is the *)
(* decimal n / 10^k, so that comparisons are exact.                        *)

Num(n, k) == [kind |-> "num", n |-> n, k |-> k]

NaN == [kind |-> "nan", n |-> 0, k |-> 0]

Inf(sign) == [kind |-> "inf", n |-> sign, k |-> 0]

ValueError == [kind |-> "error", n |-> 0, k |-> 0]

RECURSIVE Pow10(_)
Pow10(k) == IF k = 0 THEN 1 ELSE 10 * Pow10(k - 1)

\* a > b and a < b for floats; every comparison with NaN is false
FloatGt(a, b) ==
    CASE a.kind = "nan" \/ b.kind = "nan" -> FALSE
      [] a.kind = "inf" -> a.n > 0 /\ ~(b.kind = "inf" /\ b.n > 0)
      [] b.kind = "inf" -> b.n < 0
      [] OTHER -> a.n * Pow10(b.k) > b.n * Pow10(a.k)

FloatLt(a, b) == FloatGt(b, a)

Digits == {"0", "1", "2", "3", "4", "5", "6", "7", "8", "9"}

DigitVal ==
    ("0" :> 0) @@ ("1" :> 1) @@ ("2" :> 2) @@ ("3" :> 3) @@ ("4" :> 4) @@
    ("5" :> 5) @@ ("6" :> 6) @@ ("7" :> 7) @@ ("8" :> 8) @@ ("9" :> 9)

RECURSIVE DigitsValue(_)
DigitsValue(ds) ==
    IF ds = <<>> THEN 0
    ELSE 10 * DigitsValue(SubSeq(ds, 1, Len(ds) - 1)) + DigitVal[ds[Len(ds)]]

AllDigits(ds) == \A i \in 1..Len(ds) : ds[i] \in Digits

Lower(c) ==
    CASE c = "N" -> "n" [] c = "A" -> "a" [] c = "I" -> "i" [] c = "F" -> "f"
      [] OTHER -> c

LowerAll(s) == [i \in 1..Len(s) |-> Lower(s[i])]

Signed(s) == s # <<>> /\ Head(s) \in {"+", "-"}

SignOf(s) == IF Signed(s) /\ Head(s) = "-" THEN -1 ELSE 1

Unsigned(s) == IF Signed(s) THEN Tail(s) ELSE s

\* float(text): blanks around it are ignored; nan and inf are floats
float(text) ==
    LET t == strip(text)
        body == Unsigned(t)
        dots == {i \in 1..Len(body) : body[i] = "."}
        dot == IF dots = {} THEN Len(body) + 1 ELSE CHOOSE i \in dots : TRUE
        whole == SubSeq(body, 1, dot - 1)
        frac == SubSeq(body, dot + 1, Len(body))
    IN  IF LowerAll(body) = <<"n", "a", "n">> THEN NaN
        ELSE IF LowerAll(body) = <<"i", "n", "f">> THEN Inf(SignOf(t))
        ELSE IF /\ Cardinality(dots) <= 1
                /\ AllDigits(whole) /\ AllDigits(frac)
                /\ Len(whole) + Len(frac) > 0
             THEN Num(SignOf(t) * DigitsValue(whole \o frac), Len(frac))
             ELSE ValueError

\* int(text): blanks around it are ignored; digits only
int(text) ==
    LET t == strip(text)
        body == Unsigned(t)
    IN  IF body # <<>> /\ AllDigits(body)
        THEN Num(SignOf(t) * DigitsValue(body), 0)
        ELSE ValueError

NoValue == [some |-> FALSE, v |-> ValueError]

\* one pass of the loop of inputFloatBetween, lines 159-171, on the line
\* typed: either the helper returns a value or it prompts again
inputFloatBetween(line, min_value, max_value, allow_null) ==
    IF strip(line) = <<>> /\ allow_null
    THEN [returned |-> TRUE, value |-> NoValue]
    ELSE IF float(line).kind = "error"
    THEN [returned |-> FALSE, value |-> NoValue]
    ELSE IF FloatGt(float(line), max_value) \/ FloatLt(float(line), min_value)
    THEN [returned |-> FALSE, value |-> NoValue]
    ELSE [returned |-> TRUE, value |-> Some(float(line))]

\* one pass of the loop of inputInt, lines 186-194
inputInt(line, allow_null) ==
    IF strip(line) = <<>> /\ allow_null
    THEN [returned |-> TRUE, value |-> NoValue]
    ELSE IF int(line).kind = "error"
    THEN [returned |-> FALSE, value |-> NoValue]
    ELSE [returned |-> TRUE, value |-> Some(int(line))]

-----------------------------------------------------------------------------
(* The option prompts *)

\* lines an operator may type at a numeric prompt
NumberInputs ==
    { <<>>,
      <<" ">>,
      <<"a", "b", "c">>,
      <<"3", ".", "5">>,
      <<"1", ".", "5">>,
      <<"-", "2", ".", "0">>,
      <<"-", "2", ".", "1">>,
      <<" ", "2", " ">>,
      <<"n", "a", "n">>,
      <<"i", "n", "f">> }

ModelInputs == {<<>>, <<"m">>}

FloatFields == {"frequency_penalty", "presence_penalty", "temperature"}

\* the arguments getRequestOptions passes for each field, lines 26, 34, 38
CallFor(field) ==
    [field |-> field,
     min_value |-> IF field = "temperature" THEN Num(0, 1) ELSE Num(-20, 1),
     max_value |-> Num(20, 1),
     allow_null |-> TRUE]

\* calls of inputFloatBetween made directly, with either setting of allow_null
DirectCalls ==
    { [field |-> "direct", min_value |-> lo, max_value |-> Num(20, 1), allow_null |-> n] :
        lo \in {Num(-20, 1), Num(0, 1)}, n \in BOOLEAN }

NextField(field) ==
    CASE field = "model" -> "frequency_penalty"
      [] field = "frequency_penalty" -> "max_tokens"
      [] field = "max_tokens" -> "presence_penalty"
      [] field = "presence_penalty" -> "temperature"
      [] OTHER -> "done"

EmptyDict == [key \in {} |-> 0]

Put(dict, key, value) == (key :> value) @@ dict

NoResult == [call |-> CallFor("none"), returned |-> FALSE, value |-> NoValue]

PromptIdle ==
    /\ requestOptions = Put(EmptyDict, "model", LocalModel)
    /\ ask = CallFor("done")
    /\ typed = <<>>
    /\ result = NoResult

PromptInit ==
    /\ requestOptions = EmptyDict
    /\ ask \in {CallFor("model")} \cup DirectCalls
    /\ typed = <<>>
    /\ result = NoResult

\* line 24: the model id is asked for
AskModel ==
    /\ ask.field = "model"
    /\ requestOptions = EmptyDict
    /\ \E line \in ModelInputs :
        /\ typed' = line
        /\ requestOptions' =
             Put(requestOptions, "model", inputStringOrDefault(line, LocalModel))
    /\ result' = NoResult
    /\ ask' = CallFor(NextField(ask.field))
    /\ UNCHANGED driverVars

\* lines 26-28, 34-36, 38-40: one line typed at a float prompt
AskFloat ==
    /\ ask.field \in FloatFields
    /\ \E line \in NumberInputs :
        LET r == inputFloatBetween(line, ask.min_value, ask.max_value, ask.allow_null)
        IN  /\ typed' = line
            /\ result' = [call |-> ask, returned |-> r.returned, value |-> r.value]
            /\ requestOptions' =
                 IF r.returned /\ r.value.some
                 THEN Put(requestOptions, ask.field, r.value.v)
                 ELSE requestOptions
            /\ ask' = IF r.returned THEN CallFor(NextField(ask.field)) ELSE ask
    /\ UNCHANGED driverVars

\* lines 30-32: one line typed at the max_tokens prompt
AskInt ==
    /\ ask.field = "max_tokens"
    /\ \E line \in NumberInputs :
        LET r == inputInt(line, TRUE)
        IN  /\ typed' = line
            /\ result' = [call |-> ask, returned |-> r.returned, value |-> r.value]
            /\ requestOptions' =
                 IF r.returned /\ r.value.some
                 THEN Put(requestOptions, ask.field, r.value.v)
                 ELSE requestOptions
            /\ ask' = IF r.returned THEN CallFor(NextField(ask.field)) ELSE ask
    /\ UNCHANGED driverVars

\* inputFloatBetween called on its own: one line typed
AskDirect ==
    /\ ask.field = "direct"
    /\ \E line \in NumberInputs :
        LET r == inputFloatBetween(line, ask.min_value, ask.max_value, ask.allow_null)
        IN  /\ typed' = line
            /\ result' = [call |-> ask, returned |-> r.returned, value |-> r.value]
            /\ ask' = IF r.returned THEN [ask EXCEPT !.field = "done"] ELSE ask
    /\ UNCHANGED requestOptions
    /\ UNCHANGED driverVars

-----------------------------------------------------------------------------
(* Specifications *)

Init == DriverInit /\ PromptIdle

Next ==
    \/ Main
    \/ OpenInput
    \/ OpenInputFails
    \/ OpenOutput
    \/ OpenOutputFails
    \/ Question
    \/ QuestionFails
    \/ Answer
    \/ Other
    \/ WriteFails
    \/ AnswerWriteFails
    \/ Return

Spec == Init /\ [][Next]_vars

NextRerun == Next \/ Rerun

SpecRerun == Init /\ [][NextRerun]_vars

DriverIdle ==
    /\ fs = [p \in Paths |-> <<>>]
    /\ pc = "idle"
    /\ runs = 0
    /\ inputFile = DefaultInput
    /\ outputFile = DefaultOutput
    /\ system_message = None
    /\ inOpen = FALSE
    /\ outOpen = FALSE
    /\ inPos = 0
    /\ messages = <<>>
    /\ requests = <<>>
    /\ completions = <<>>
    /\ error = "none"
    /\ inputBefore = <<>>
    /\ prev = NoRun

InitOptions == DriverIdle /\ PromptInit

NextOptions ==
    \/ AskModel
    \/ AskFloat
    \/ AskInt
    \/ AskDirect

SpecOptions == InitOptions /\ [][NextOptions]_vars

-----------------------------------------------------------------------------
(* What the properties speak of *)

\* the lines of a text, terminators kept
RECURSIVE Lines(_)
Lines(text) ==
    IF text = <<>> THEN <<>>
    ELSE <<ReadLine(text, 0)>> \o Lines(SubSeq(text, LineEnd(text, 0) + 1, Len(text)))

\* the marks of the transcript format: "- Q: ", "- A:" and "- A: "
QuestionMark == <<"-", " ", "Q", ":", " ">>

AnswerMark == <<"-", " ", "A", ":">>

GeneratedMark == <<"-", " ", "A", ":", " ">>

IsQuestionLine(l) == startswith(l, QuestionMark)

IsAnswerLine(l) == startswith(l, GeneratedMark)

\* an input line that is neither a question nor an answer
IsOtherInput(l) == ~startswith(l, QuestionMark) /\ ~startswith(l, AnswerMark)

\* an output line that is neither a question nor an answer
IsOtherOutput(l) == ~IsQuestionLine(l) /\ ~IsAnswerLine(l)

InputLines == Lines(fs[inputFile])

OutputLines == Lines(fs[outputFile])

\* the input lines the loop has taken so far
Consumed == Lines(SubSeq(fs[inputFile], 1, inPos))

\* the stripped texts of the questions among some lines, in order
RECURSIVE QuestionTexts(_)
QuestionTexts(ls) ==
    IF ls = <<>> THEN <<>>
    ELSE IF IsQuestionLine(Head(ls))
         THEN <<strip(SubSeq(Head(ls), Len(QuestionMark) + 1, Len(Head(ls))))>>
              \o QuestionTexts(Tail(ls))
         ELSE QuestionTexts(Tail(ls))

UserEntry(text) == [type |-> "dict", role |-> "user", content |-> text]

Seed ==
    IF system_message.some
    THEN <<[type |-> "dict", role |-> "system", content |-> system_message.v]>>
    ELSE <<>>

\* question i and the message returned for it, for i = 1..k
RECURSIVE Turns(_)
Turns(k) ==
    IF k = 0 THEN <<>>
    ELSE Turns(k - 1) \o <<UserEntry(QuestionTexts(Consumed)[k]), completions[k]>>

\* the history the k-th request should carry
Carried(k) == Seed \o Turns(k - 1) \o <<UserEntry(QuestionTexts(Consumed)[k])>>

\* the output for some input lines, given the messages returned for them
RECURSIVE Rendered(_, _)
Rendered(ls, answers) ==
    IF ls = <<>> THEN <<>>
    ELSE IF IsQuestionLine(Head(ls))
         THEN Head(ls) \o GeneratedMark \o strip(Head(answers).content) \o <<NL>>
              \o Rendered(Tail(ls), Tail(answers))
    ELSE IF startswith(Head(ls), AnswerMark) THEN Rendered(Tail(ls), answers)
    ELSE Head(ls) \o Rendered(Tail(ls), answers)

Range(f) == {f[i] : i \in DOMAIN f}

Contents(ms) == [i \in 1..Len(ms) |-> ms[i].content]

\* the output file has been opened by this run
OutputWritten ==
    \/ pc \in {"loop", "returned"}
    \/ pc = "raised" /\ error \in {"request", "write"}

Exited == pc \in {"returned", "raised"}

\* min_value <= v <= max_value, which no NaN satisfies
InRange(v, min_value, max_value) ==
    /\ v.kind = "num"
    /\ min_value.n * Pow10(v.k) <= v.n * Pow10(min_value.k)
    /\ v.n * Pow10(max_value.k) <= max_value.n * Pow10(v.k)

-----------------------------------------------------------------------------
(* Properties *)

\* C1: when the driver returns, the output has as many question lines as the
\* input, and every question line of the output is followed at once by
\* exactly one answer line.
C1_EveryQuestionAnswered ==
    pc = "returned" =>
        /\ Len(SelectSeq(OutputLines, IsQuestionLine))
             = Len(SelectSeq(InputLines, IsQuestionLine))
        /\ \A i \in 1..Len(OutputLines) :
             IsQuestionLine(OutputLines[i]) =>
                /\ i < Len(OutputLines)
                /\ IsAnswerLine(OutputLines[i + 1])
                /\ i + 2 <= Len(OutputLines) => ~IsAnswerLine(OutputLines[i + 2])

\* C2: when the driver returns, the output lines that are neither question
\* lines nor answer lines are exactly the input lines that start with
\* neither "- Q: " nor "- A:", in the same order and unchanged.
C2_OtherLinesCopied ==
    pc = "returned" =>
        SelectSeq(OutputLines, IsOtherOutput) = SelectSeq(InputLines, IsOtherInput)

\* C3: an input line starting with "- A:" is dropped: it triggers no request,
\* it never joins the history, and it is never written; every line of the
\* output that starts with "- A:" is a line of an answer generated in this run.
C3_InputAnswersDropped ==
    /\ Len(requests) <= Len(QuestionTexts(Consumed))
    /\ LET users == SelectSeq(messages, LAMBDA m : m.role = "user")
       IN  /\ Len(users) = Len(requests)
           /\ Contents(users) = SubSeq(QuestionTexts(Consumed), 1, Len(users))
    /\ OutputWritten =>
         \A i \in 1..Len(OutputLines) :
            startswith(OutputLines[i], AnswerMark) =>
               \E k \in 1..Len(completions) :
                  OutputLines[i] \in
                     Range(Lines(GeneratedMark \o strip(completions[k].content) \o <<NL>>))

C3_Witness ==
    /\ pc = "returned"
    /\ inputFile # outputFile
    /\ \E i \in 1..Len(InputLines) : startswith(InputLines[i], AnswerMark)
    /\ Len(completions) >= 1

C5_FailureKeepsPartialOutput ==
    (pc = "raised" /\ error = "request") =>
        LET n == Len(Consumed)
        IN  /\ n >= 1
            /\ IsQuestionLine(Consumed[n])
            /\ Len(requests) = Len(QuestionTexts(Consumed))
            /\ Len(completions) = Len(requests) - 1
            /\ fs[outputFile]
                 = Rendered(SubSeq(Consumed, 1, n - 1), completions) \o Consumed[n]

C5_Witness ==
    /\ pc = "raised"
    /\ error = "request"
    /\ Len(completions) >= 1
    /\ inPos < Len(fs[inputFile])

\* C6: running the driver on its own output with the client giving the same
\* answers yields the same question lines and the same other lines as the
\* first output, in the same order, none of them twice.
C6_RerunKeepsLines ==
    ( /\ pc = "returned"
      /\ prev.returned
      /\ inputFile = prev.outputFile
      /\ inputFile # outputFile
      /\ Contents(completions) = Contents(prev.completions) ) =>
        /\ SelectSeq(OutputLines, IsQuestionLine) = SelectSeq(InputLines, IsQuestionLine)
        /\ SelectSeq(OutputLines, IsOtherOutput) = SelectSeq(InputLines, IsOtherOutput)

\* C7: inputFloatBetween returns only on a valid line: a value it returns lies
\* in [min_value, max_value]; it returns None only when allow_null is set and
\* the line is blank; any other line is prompted for again; and a None leaves
\* the field out of the request options.
C7_FloatPromptValidates ==
    result.call.field \in FloatFields \cup {"direct"} =>
        LET c == result.call
        IN  /\ (result.returned /\ result.value.some) =>
                 InRange(result.value.v, c.min_value, c.max_value)
            /\ (result.returned /\ ~result.value.some) =>
                 (c.allow_null /\ strip(typed) = <<>>)
            /\ ~result.returned =>
                 \/ float(typed).kind \in {"error", "nan"}
                 \/ ~InRange(float(typed), c.min_value, c.max_value)
            /\ (result.returned /\ c.field \in FloatFields) =>
                 (c.field \in DOMAIN requestOptions <=> result.value.some)

\* C8 as stated: with no system message and two question lines in a row, the
\* second request carries four entries.
C8_SecondRequestHasFour ==
    ( /\ ~system_message.some
      /\ Len(requests) >= 2
      /\ Len(Consumed) >= 2
      /\ IsQuestionLine(Consumed[1])
      /\ IsQuestionLine(Consumed[2]) ) =>
        Len(requests[2].messages) = 4

\* C8 amended: with no system message and two question lines in a row, the
\* second request carries three entries: user Q1, assistant A1, user Q2.
C8_SecondRequestHasThree ==
    ( /\ ~system_message.some
      /\ Len(requests) >= 2
      /\ Len(Consumed) >= 2
      /\ IsQuestionLine(Consumed[1])
      /\ IsQuestionLine(Consumed[2]) ) =>
        /\ Len(requests[2].messages) = 3
        /\ Contents(requests[2].messages)
             = <<QuestionTexts(Consumed)[1], completions[1].content,
                 QuestionTexts(Consumed)[2]>>

C8_Witness ==
    /\ ~system_message.some
    /\ Len(requests) >= 2
    /\ Len(Consumed) >= 2
    /\ IsQuestionLine(Consumed[1])
    /\ IsQuestionLine(Consumed[2])

\* C9: once the driver has returned or raised, neither the input handle nor
\* the output handle is open.
C9_HandlesReleased == Exited => (~inOpen /\ ~outOpen)

C9_Witness ==
    /\ pc = "raised"
    /\ error = "write"
    /\ Len(completions) >= 1

\* C10: the driver never changes the input file: once it has returned or
\* raised, the input file holds the text it held when main was started,
\* whichever paths the operator entered.
C10_InputFileUnchanged == Exited => fs[inputFile] = inputBefore

====
